---- MODULE Spec2Model ----
(***************************************************************************)
(* Model of the dio prototype server: the object store under               *)
(* STORAGEDIR/files, the branchHeads file of each database under           *)
(* STORAGEDIR/meta, and the request handlers branchCreate, branchHistory,  *)
(* branchList and dbUpload, each running on its own goroutine.             *)
(*                                                                         *)
(* Strings are modelled as strings.  sha256 is modelled as an injective    *)
(* symbolic function of the hashed bytes.  Time is counted in ticks;       *)
(* TicksPerSecond ticks make one second, which is the resolution of the    *)
(* two time formats the ids are computed from.                             *)
(***************************************************************************)
EXTENDS Integers, Sequences, FiniteSets, TLC

\* ------------------------------------------------------------------ bounds
MaxOps == 3             \* requests served in one behaviour
MaxUploads == 2         \* of which dbUpload requests
MaxTime == 1            \* last tick of the clock
TicksPerSecond == 2     \* sub-second resolution of time.Now()

\* the goroutines that serve requests concurrently
ProcSeq == <<"p1", "p2">>
Procs == {ProcSeq[i] : i \in 1..Len(ProcSeq)}

\* ------------------------------------------------------- values of requests
NUL == "\\0"
DATABASE == "db"

sha256(s) == "sha256(" \o s \o ")"

Contents == {"aa", "bb"}
\* A client may name its database anything, also the hex digest of a blob.
DbNames == {"a.db", sha256("aa")}
BranchNames == {"master", "dev"}
\* "" is a header or form value that was not sent
DbHeader == DbNames \cup {""}
BranchHeader == BranchNames \cup {""}

\* --------------------------------------------------------------- data types
NoCommit ==
  [ID |-> "", Parent |-> "", Tree |-> "", AuthorName |-> "", AuthorEmail |-> "",
   CommitterName |-> "", CommitterEmail |-> "", Timestamp |-> 0, Message |-> ""]

NoTree == [ID |-> "", Entries |-> <<>>]

NoBranches == [b \in {} |-> ""]

\* time.Time.Format(time.UnixDate) and Format(time.RFC3339): both render the
\* time to the second.
FormatUnixDate(ts) == "unix:" \o ToString(ts \div TicksPerSecond)
FormatRFC3339(ts) == "rfc3339:" \o ToString(ts \div TicksPerSecond)

createCommitID(c) ==
  LET b1 == "tree " \o c.Tree \o "\n"
      b2 == IF c.Parent # "" THEN "parent " \o c.Parent \o "\n" ELSE ""
      b3 == "author " \o c.AuthorName \o " <" \o c.AuthorEmail \o "> "
              \o FormatUnixDate(c.Timestamp) \o "\n"
      b4 == IF c.CommitterEmail # ""
            THEN "committer " \o c.CommitterName \o " <" \o c.CommitterEmail \o "> "
                   \o FormatUnixDate(c.Timestamp) \o "\n"
            ELSE ""
      b5 == "\n" \o c.Message
  IN  sha256(b1 \o b2 \o b3 \o b4 \o b5 \o NUL)

RECURSIVE treeBytes(_)
treeBytes(entries) ==
  IF entries = <<>> THEN ""
  ELSE LET j == Head(entries)
       IN  j.AType \o NUL \o j.Sha256 \o NUL \o j.Name \o NUL
             \o FormatRFC3339(j.Last_Modified) \o NUL
             \o ToString(j.Size) \o "\n" \o treeBytes(Tail(entries))

createDBTreeID(entries) == sha256(treeBytes(entries))

\* ------------------------------------------------------------ the two stores
\* A file of STORAGEDIR/files.  full = FALSE is a file that a WriteFile opened
\* (and so truncated) and did not finish: it holds a strict prefix of the
\* bytes, which is shorter than the bytes and is no valid JSON.
BlobFile(db) ==
  [kind |-> "blob", full |-> TRUE, bytes |-> db, tree |-> NoTree, commit |-> NoCommit]
TreeFile(t) ==
  [kind |-> "tree", full |-> TRUE, bytes |-> "", tree |-> t, commit |-> NoCommit]
CommitFile(c) ==
  [kind |-> "commit", full |-> TRUE, bytes |-> "", tree |-> NoTree, commit |-> c]
Truncated(f) ==
  [kind |-> f.kind, full |-> FALSE, bytes |-> "", tree |-> NoTree, commit |-> NoCommit]

\* A branchHeads file of STORAGEDIR/meta/<dbName>.
NoHeads == [state |-> "absent", heads |-> NoBranches]
TruncatedHeads == [state |-> "truncated", heads |-> NoBranches]
HeadsFile(branches) == [state |-> "ok", heads |-> branches]

\* ioutil.WriteFile: "ok" writes all the bytes; "open" fails before the file
\* is touched; "partial" fails after the file was created or truncated.
IOOutcomes == {"ok", "open", "partial"}

WriteFile(fs, path, data, o) ==
  IF o = "open" THEN fs
  ELSE [q \in DOMAIN fs \cup {path} |->
          IF q = path THEN (IF o = "ok" THEN data ELSE Truncated(data)) ELSE fs[q]]

VARIABLES
  files,     \* STORAGEDIR/files: file name -> file
  meta,      \* STORAGEDIR/meta: database name -> its branchHeads file
  now,       \* the time that time.Now() returned last
  ops,       \* requests received so far
  uploads,   \* dbUpload requests received so far
  pc,        \* per goroutine: "idle", or the call its handler makes next
  req,       \* per goroutine: the request it is serving
  buf,       \* per goroutine: buf of dbUpload
  t,         \* per goroutine: t of dbUpload
  c,         \* per goroutine: c of dbUpload
  branches,  \* per goroutine: branches of dbUpload and of branchCreate
  pre,       \* per goroutine: the branchHeads file of the database as it was
             \* when the request arrived (read by no handler)
  last       \* the request answered last and its response

vars == <<files, meta, now, ops, uploads, pc, req, buf, t, c, branches, pre, last>>

NoReq == [op |-> "", dbName |-> "", branchName |-> "", fromBranch |-> "", newBranch |-> ""]
NoResp == [status |-> 0, history |-> <<>>, branches |-> NoBranches]
Status(code) == [status |-> code, history |-> <<>>, branches |-> NoBranches]

StatusOK == 200
StatusCreated == 201
StatusNoContent == 204
StatusBadRequest == 400
StatusNotFound == 404
StatusConflict == 409
StatusInternalServerError == 500

Init ==
  /\ files = [q \in {} |-> BlobFile("")]
  /\ meta = [d \in DbNames |-> NoHeads]
  /\ now = 0
  /\ ops = 0
  /\ uploads = 0
  /\ pc = [p \in Procs |-> "idle"]
  /\ req = [p \in Procs |-> NoReq]
  /\ buf = [p \in Procs |-> ""]
  /\ t = [p \in Procs |-> NoTree]
  /\ c = [p \in Procs |-> NoCommit]
  /\ branches = [p \in Procs |-> NoBranches]
  /\ pre = [p \in Procs |-> NoHeads]
  /\ last = [req |-> NoReq, resp |-> NoResp]

\* ----------------------------------------------------------- backend.go
dbExists(fs, dbName) == dbName \in DOMAIN fs

\* getBranches with the database name left out of the path: one branchHeads
\* file for all databases
getBranchesSharedFile(mt, dbName) ==
  IF \E d \in DOMAIN mt : mt[d].state = "ok"
  THEN [err |-> FALSE, branches |-> mt[CHOOSE d \in DOMAIN mt : mt[d].state = "ok"].heads]
  ELSE [err |-> TRUE, branches |-> NoBranches]

getBranches(mt, dbName) ==
  IF mt[dbName].state = "ok"
  THEN [err |-> FALSE, branches |-> mt[dbName].heads]
  ELSE [err |-> TRUE, branches |-> NoBranches]

\* os.Stat, os.MkdirAll when the stat failed, then ioutil.WriteFile
storeBranches(mt, dbName, b, o) ==
  IF o = "open" THEN mt
  ELSE [mt EXCEPT ![dbName] = IF o = "ok" THEN HeadsFile(b) ELSE TruncatedHeads]

storeCommit(fs, cm, o) == WriteFile(fs, cm.ID, CommitFile(cm), o)

storeTree(fs, tr, o) == WriteFile(fs, tr.ID, TreeFile(tr), o)

\* f.Size() of a file of the object store
FileSize(f) == IF f.full THEN Len(f.bytes) ELSE 0

\* storeDatabaseWrites without the checks: every call writes the file
storeDatabaseWritesAlways(fs, db) == TRUE

\* storeDatabaseWrites with the size compared to the blobs of the store rather
\* than to the file of this digest: a blob of the same size counts as this one
storeDatabaseWritesAnyOfSize(fs, db) ==
  ~\E q \in DOMAIN fs : fs[q].kind = "blob" /\ FileSize(fs[q]) = Len(db)

\* TRUE when storeDatabase calls WriteFile: the stat failed, or the file on
\* disk has another size than the buffer
storeDatabaseWrites(fs, db) ==
  LET path == sha256(db)
  IN  IF path \notin DOMAIN fs THEN TRUE ELSE Len(db) # FileSize(fs[path])

storeDatabase(fs, db, o) ==
  IF storeDatabaseWrites(fs, db) THEN WriteFile(fs, sha256(db), BlobFile(db), o) ELSE fs

\* the read of a commit file and its unmarshalling
getCommit(fs, id) ==
  IF id \in DOMAIN fs /\ fs[id].full /\ fs[id].kind = "commit"
  THEN [err |-> FALSE, commit |-> fs[id].commit]
  ELSE [err |-> TRUE, commit |-> NoCommit]

\* ------------------------------------------------------ steps of a request
\* The goroutines are interchangeable: a request is taken by the first free one.
Free(p) == pc[p] = "idle"

Start(p) ==
  /\ Free(p)
  /\ \A i, j \in 1..Len(ProcSeq) : (i < j /\ ProcSeq[j] = p) => ~Free(ProcSeq[i])
  /\ ops < MaxOps
  /\ ops' = ops + 1

\* the handler returns: the response is sent and the locals are gone; last is
\* the request that was answered last, with its response
Finish(p, rq, r) ==
  /\ pc' = [pc EXCEPT ![p] = "idle"]
  /\ last' = [req |-> rq, resp |-> r]
  /\ req' = [req EXCEPT ![p] = NoReq]
  /\ buf' = [buf EXCEPT ![p] = ""]
  /\ t' = [t EXCEPT ![p] = NoTree]
  /\ c' = [c EXCEPT ![p] = NoCommit]
  /\ branches' = [branches EXCEPT ![p] = NoBranches]
  /\ pre' = [pre EXCEPT ![p] = NoHeads]

\* the handler goes on to its next call with the locals it has
Goto(p, next) ==
  /\ pc' = [pc EXCEPT ![p] = next]
  /\ UNCHANGED <<last, req, buf, t, c, branches, pre>>

uploadReq(name, branch) ==
  [NoReq EXCEPT !.op = "dbUpload", !.dbName = name, !.branchName = branch]

createReq(name, fromBranch, newBranch) ==
  [NoReq EXCEPT !.op = "branchCreate", !.dbName = name,
                !.fromBranch = fromBranch, !.newBranch = newBranch]

historyReq(name, branchName) ==
  [NoReq EXCEPT !.op = "branchHistory", !.dbName = name, !.branchName = branchName]

listReq(name) == [NoReq EXCEPT !.op = "branchList", !.dbName = name]

\* dbUpload up to the point where the first file is written; time.Now() returns
\* tm, which is not before the time it returned last
UploadBegin(p, name, branch, body, tm) ==
  /\ Start(p)
  /\ uploads < MaxUploads
  /\ uploads' = uploads + 1
  /\ IF name = "" \/ branch = ""
     THEN /\ Finish(p, uploadReq(name, branch), Status(StatusBadRequest))
          /\ tm = now
          /\ UNCHANGED now
     ELSE LET branchName == IF branch = "" THEN "master" ELSE branch
              e == [AType |-> DATABASE, Sha256 |-> sha256(body), Name |-> name,
                    Last_Modified |-> tm, Size |-> Len(body)]
              tr == [ID |-> createDBTreeID(<<e>>), Entries |-> <<e>>]
              c0 == [NoCommit EXCEPT !.AuthorEmail = "justin@postgresql.org",
                                     !.AuthorName = "Justin Clift",
                                     !.Timestamp = tm,
                                     !.Tree = tr.ID]
              gb == getBranches(meta, name)
              c1 == IF dbExists(files, name) /\ branchName \in DOMAIN gb.branches
                    THEN [c0 EXCEPT !.Parent = gb.branches[branchName]]
                    ELSE c0
              c2 == [c1 EXCEPT !.ID = createCommitID(c1)]
              old == IF dbExists(files, name) THEN gb.branches ELSE NoBranches
              b2 == [n \in DOMAIN old \cup {branchName} |->
                       IF n = branchName THEN c2.ID ELSE old[n]]
          IN  /\ tm \in now..MaxTime
              /\ now' = tm
              /\ IF dbExists(files, name) /\ gb.err
                 THEN Finish(p, uploadReq(name, branch), Status(StatusInternalServerError))
                 ELSE /\ pc' = [pc EXCEPT ![p] = "storeDatabase"]
                      /\ req' = [req EXCEPT ![p] = uploadReq(name, branch)]
                      /\ UNCHANGED last
                      /\ buf' = [buf EXCEPT ![p] = body]
                      /\ t' = [t EXCEPT ![p] = tr]
                      /\ c' = [c EXCEPT ![p] = c2]
                      /\ branches' = [branches EXCEPT ![p] = b2]
                      /\ pre' = [pre EXCEPT ![p] = meta[name]]
  /\ UNCHANGED <<files, meta>>

\* storeDatabase up to the point where its WriteFile has opened the file of the
\* blob, and so created or truncated it; all of storeDatabase when it skips
\* the write
UploadStoreDatabase(p) ==
  /\ pc[p] = "storeDatabase"
  /\ IF storeDatabaseWrites(files, buf[p])
     THEN \E o \in {"open", "partial"} :
            /\ files' = storeDatabase(files, buf[p], o)
            /\ IF o = "open" THEN Finish(p, req[p], Status(StatusInternalServerError))
               ELSE Goto(p, "writeDatabase")
     ELSE /\ files' = storeDatabase(files, buf[p], "ok")
          /\ Goto(p, "storeTree")
  /\ UNCHANGED <<meta, now, ops, uploads>>

\* the rest of that WriteFile: the bytes are written and the file is closed
UploadWriteDatabase(p) ==
  /\ pc[p] = "writeDatabase"
  /\ \E o \in {"ok", "partial"} :
       /\ files' = WriteFile(files, sha256(buf[p]), BlobFile(buf[p]), o)
       /\ IF o = "ok" THEN Goto(p, "storeTree")
          ELSE Finish(p, req[p], Status(StatusInternalServerError))
  /\ UNCHANGED <<meta, now, ops, uploads>>

UploadStoreTree(p) ==
  /\ pc[p] = "storeTree"
  /\ \E o \in IOOutcomes :
       /\ files' = storeTree(files, t[p], o)
       /\ IF o = "ok" THEN Goto(p, "storeCommit")
          ELSE Finish(p, req[p], Status(StatusInternalServerError))
  /\ UNCHANGED <<meta, now, ops, uploads>>

\* UploadStoreCommit with the branch heads written before the commit file
UploadStoreCommitHeadsFirst(p) ==
  /\ pc[p] = "storeCommit"
  /\ \E o \in IOOutcomes :
       /\ meta' = storeBranches(meta, req[p].dbName, branches[p], "ok")
       /\ files' = storeCommit(files, c[p], o)
       /\ IF o = "ok" THEN Goto(p, "storeBranches")
          ELSE Finish(p, req[p], Status(StatusInternalServerError))
  /\ UNCHANGED <<now, ops, uploads>>

UploadStoreCommit(p) ==
  /\ pc[p] = "storeCommit"
  /\ \E o \in IOOutcomes :
       /\ files' = storeCommit(files, c[p], o)
       /\ IF o = "ok" THEN Goto(p, "storeBranches")
          ELSE Finish(p, req[p], Status(StatusInternalServerError))
  /\ UNCHANGED <<meta, now, ops, uploads>>

UploadStoreBranches(p) ==
  /\ pc[p] = "storeBranches"
  /\ \E o \in IOOutcomes :
       /\ meta' = storeBranches(meta, req[p].dbName, branches[p], o)
       /\ IF o = "ok" THEN Finish(p, req[p], Status(StatusCreated))
          ELSE Finish(p, req[p], Status(StatusInternalServerError))
  /\ UNCHANGED <<files, now, ops, uploads>>

\* branchCreate up to the write of the branchHeads file
BranchCreateBegin(p, name, fromBranch, newBranch) ==
  /\ Start(p)
  /\ LET gb == getBranches(meta, name)
         b2 == [n \in DOMAIN gb.branches \cup {newBranch} |->
                  IF n = newBranch THEN gb.branches[fromBranch] ELSE gb.branches[n]]
         rq == createReq(name, fromBranch, newBranch)
     IN  IF name = "" \/ fromBranch = "" \/ newBranch = ""
           THEN Finish(p, rq, Status(StatusBadRequest))
         ELSE IF ~dbExists(files, name) THEN Finish(p, rq, Status(StatusNotFound))
         ELSE IF gb.err THEN Finish(p, rq, Status(StatusInternalServerError))
         ELSE IF fromBranch \notin DOMAIN gb.branches THEN Finish(p, rq, Status(StatusNotFound))
         ELSE IF newBranch \in DOMAIN gb.branches THEN Finish(p, rq, Status(StatusConflict))
         ELSE /\ pc' = [pc EXCEPT ![p] = "createStoreBranches"]
              /\ req' = [req EXCEPT ![p] = rq]
              /\ UNCHANGED last
              /\ branches' = [branches EXCEPT ![p] = b2]
              /\ pre' = [pre EXCEPT ![p] = meta[name]]
              /\ UNCHANGED <<buf, t, c>>
  /\ UNCHANGED <<files, meta, now, uploads>>

BranchCreateStoreBranches(p) ==
  /\ pc[p] = "createStoreBranches"
  /\ \E o \in IOOutcomes :
       /\ meta' = storeBranches(meta, req[p].dbName, branches[p], o)
       /\ IF o = "ok" THEN Finish(p, req[p], Status(StatusNoContent))
          ELSE Finish(p, req[p], Status(StatusInternalServerError))
  /\ UNCHANGED <<files, now, ops, uploads>>

\* The loop of branchHistory from the commit id on: the commits from id along
\* the Parent fields.  err: a getCommit failed.  loops: the walk came back to a
\* commit it had visited, so that the loop of the handler never ends.
RECURSIVE walkHistory(_, _, _)
walkHistory(fs, id, seen) ==
  LET g == getCommit(fs, id)
  IN  IF id \in seen THEN [err |-> FALSE, loops |-> TRUE, history |-> <<>>]
      ELSE IF g.err THEN [err |-> TRUE, loops |-> FALSE, history |-> <<>>]
      ELSE IF g.commit.Parent = ""
           THEN [err |-> FALSE, loops |-> FALSE, history |-> <<g.commit>>]
      ELSE LET r == walkHistory(fs, g.commit.Parent, seen \cup {id})
           IN  [err |-> r.err, loops |-> r.loops,
                history |-> IF r.err \/ r.loops THEN <<>> ELSE <<g.commit>> \o r.history]

\* the response of branchHistory; NoResp when the handler never returns
branchHistory(fs, mt, name, branchName) ==
  LET gb == getBranches(mt, name)
      w == walkHistory(fs, gb.branches[branchName], {})
  IN  IF name = "" \/ branchName = "" THEN Status(StatusBadRequest)
      ELSE IF ~dbExists(fs, name) THEN Status(StatusNotFound)
      ELSE IF gb.err THEN Status(StatusInternalServerError)
      ELSE IF branchName \notin DOMAIN gb.branches THEN Status(StatusNotFound)
      ELSE IF w.loops THEN NoResp
      ELSE IF w.err THEN Status(StatusInternalServerError)
      ELSE [Status(StatusOK) EXCEPT !.history = w.history]

branchList(fs, mt, name) ==
  LET gb == getBranches(mt, name)
  IN  IF name = "" THEN Status(StatusBadRequest)
      ELSE IF ~dbExists(fs, name) THEN Status(StatusNotFound)
      ELSE IF gb.err THEN Status(StatusInternalServerError)
      ELSE [Status(StatusOK) EXCEPT !.branches = gb.branches]

BranchHistory(p, name, branchName) ==
  /\ Start(p)
  /\ Finish(p, historyReq(name, branchName), branchHistory(files, meta, name, branchName))
  /\ UNCHANGED <<files, meta, now, uploads>>

BranchList(p, name) ==
  /\ Start(p)
  /\ Finish(p, listReq(name), branchList(files, meta, name))
  /\ UNCHANGED <<files, meta, now, uploads>>

Next ==
  \/ \E p \in Procs, name \in DbHeader, branch \in BranchHeader, body \in Contents,
        tm \in 0..MaxTime : UploadBegin(p, name, branch, body, tm)
  \/ \E p \in Procs : UploadStoreDatabase(p)
  \/ \E p \in Procs : UploadWriteDatabase(p)
  \/ \E p \in Procs : UploadStoreTree(p)
  \/ \E p \in Procs : UploadStoreCommit(p)
  \/ \E p \in Procs : UploadStoreBranches(p)
  \/ \E p \in Procs, name \in DbHeader, fromBranch \in BranchHeader, newBranch \in BranchHeader :
       BranchCreateBegin(p, name, fromBranch, newBranch)
  \/ \E p \in Procs : BranchCreateStoreBranches(p)
  \/ \E p \in Procs, name \in DbHeader, branchName \in BranchHeader :
       BranchHistory(p, name, branchName)
  \/ \E p \in Procs, name \in DbHeader : BranchList(p, name)

Spec == Init /\ [][Next]_vars

\* -------------------------------------------------------------- properties
\* Steps of a behaviour, as the properties speak of them.

\* goroutine p, serving a dbUpload, stores its commit file in this step
UploadStoredCommit(p) == pc[p] = "storeCommit" /\ pc'[p] = "storeBranches"

\* goroutine p, serving a dbUpload, writes the branch heads and answers 201
UploadPublished(p) ==
  /\ pc[p] = "storeBranches"
  /\ pc'[p] = "idle"
  /\ last'.resp.status = StatusCreated

\* a request of kind op arrives and is answered in this very step
Answered(op) == ops' = ops + 1 /\ pc' = pc /\ last'.req.op = op

\* the commits from the head of a branch along the parent links
Chain(fs, mt, name, branchName) ==
  IF mt[name].state = "ok" /\ branchName \in DOMAIN mt[name].heads
  THEN walkHistory(fs, mt[name].heads[branchName], {})
  ELSE [err |-> FALSE, loops |-> FALSE, history |-> <<>>]

\* C1: a successful upload to a database and branch that has a head H, while no
\* other request changes the branch heads of the database, stores a commit
\* whose parent is H, and the head of the branch is that commit afterwards.
C1_SubsequentUpload ==
  [][\A p \in Procs :
       LET d == req[p].dbName
           b == req[p].branchName
       IN  (/\ UploadPublished(p)
            /\ pre[p].state = "ok"
            /\ b \in DOMAIN pre[p].heads
            /\ meta[d] = pre[p])
           => /\ c[p].Parent = pre[p].heads[b]
              /\ meta'[d].state = "ok"
              /\ b \in DOMAIN meta'[d].heads
              /\ meta'[d].heads[b] = c[p].ID]_vars

\* C2: every successful upload to a database and branch, however its steps
\* interleave with those of other uploads, puts exactly its own commit in front
\* of the history the branch had: the history of n uploads is n commits long,
\* no commit is dropped and no head is the parent of two commits.
C2_NoLostUpdates ==
  [][\A p \in Procs :
       LET d == req[p].dbName
           b == req[p].branchName
       IN  UploadPublished(p)
           => /\ ~Chain(files', meta', d, b).err
              /\ Chain(files', meta', d, b).history
                   = <<c[p]>> \o Chain(files, meta, d, b).history]_vars

\* C3: an upload to a database whose branch heads were never written, when it
\* succeeds, has stored a commit without parent, and it leaves branch heads
\* with one entry: the branch of the upload at that commit.
C3_FirstUpload ==
  [][\A p \in Procs :
       LET d == req[p].dbName
           b == req[p].branchName
       IN  /\ (UploadStoredCommit(p) /\ pre[p].state = "absent")
              => /\ c[p].Parent = ""
                 /\ c[p].ID \in DOMAIN files'
                 /\ files'[c[p].ID] = CommitFile(c[p])
           /\ (UploadPublished(p) /\ pre[p].state = "absent")
              => /\ c[p].Parent = ""
                 /\ meta'[d].state = "ok"
                 /\ DOMAIN meta'[d].heads = {b}
                 /\ meta'[d].heads[b] = c[p].ID]_vars

\* C3 happens: the first request of a behaviour is an upload that succeeded
C3_Witness ==
  /\ ops = 1
  /\ last.req.op = "dbUpload"
  /\ last.resp.status = StatusCreated
  /\ meta[last.req.dbName].state = "ok"

\* C4: branchCreate on a database that has branch heads answers 404 when the
\* from-branch is not among them, 409 when the from-branch is and the new
\* branch is too, and otherwise succeeds with the new branch at the commit the
\* from-branch was at when the request arrived.
C4_ForkRule ==
  [][/\ LET rq == last'.req
            heads == meta[rq.dbName].heads
        IN  (/\ Answered("branchCreate")
             /\ rq.dbName \in DbNames /\ rq.fromBranch # "" /\ rq.newBranch # ""
             /\ meta[rq.dbName].state = "ok")
            => /\ (rq.fromBranch \notin DOMAIN heads)
                    => last'.resp.status = StatusNotFound
               /\ (rq.fromBranch \in DOMAIN heads /\ rq.newBranch \in DOMAIN heads)
                    => last'.resp.status = StatusConflict
               /\ (rq.fromBranch \in DOMAIN heads /\ rq.newBranch \notin DOMAIN heads)
                    => last'.resp.status = StatusNoContent
     /\ \A p \in Procs :
          (/\ pc[p] = "createStoreBranches"
           /\ pc'[p] = "idle"
           /\ last'.resp.status = StatusNoContent)
          => /\ meta'[req[p].dbName].state = "ok"
             /\ req[p].newBranch \in DOMAIN meta'[req[p].dbName].heads
             /\ meta'[req[p].dbName].heads[req[p].newBranch]
                  = pre[p].heads[req[p].fromBranch]]_vars

\* the object stored under id is a whole file of the given kind
Stored(fs, id, kind) == id \in DOMAIN fs /\ fs[id].full /\ fs[id].kind = kind

\* C5: in every state, every head of every database is the id of a stored
\* commit, whose tree is stored, whose blobs are stored.
C5_HeadConsistency ==
  \A d \in DbNames : \A b \in DOMAIN meta[d].heads :
    LET id == meta[d].heads[b]
    IN  /\ Stored(files, id, "commit")
        /\ Stored(files, files[id].commit.Tree, "tree")
        /\ \A i \in 1..Len(files[files[id].commit.Tree].tree.Entries) :
             Stored(files, files[files[id].commit.Tree].tree.Entries[i].Sha256, "blob")

\* C6: no step of an upload before the write of the branch heads changes the
\* branch heads of any database, and an upload that ends in one of the writes
\* of the blob, the tree or the commit answers 500.
C6_FailureOrdering ==
  [][\A p \in Procs :
       /\ (pc[p] = "idle" /\ pc'[p] = "storeDatabase")
            => (meta' = meta /\ pre'[p] = meta[req'[p].dbName])
       /\ (pc[p] \in {"storeDatabase", "writeDatabase", "storeTree", "storeCommit"}
             /\ pc'[p] # pc[p])
            => /\ meta' = meta
               /\ (pc'[p] = "idle")
                    => /\ last'.req = req[p]
                       /\ last'.resp.status = StatusInternalServerError]_vars

\* C6 happens: an upload to a database that has branch heads has failed in a
\* write that left a truncated object, and the branch heads are whole
C6_Witness ==
  /\ last.req.op = "dbUpload"
  /\ last.resp.status = StatusInternalServerError
  /\ last.req.dbName \in DbNames
  /\ meta[last.req.dbName].state = "ok"
  /\ \E id \in DOMAIN files : ~files[id].full

\* C7: branchHistory of a branch that uploads have given a head answers with
\* the commits from that head: the head first, each next commit the parent of
\* the one before it, the last one without parent.
C7_HistoryOrder ==
  [][LET rq == last'.req
         h == last'.resp.history
     IN  (/\ Answered("branchHistory")
          /\ rq.dbName \in DbNames
          /\ meta[rq.dbName].state = "ok"
          /\ rq.branchName \in DOMAIN meta[rq.dbName].heads)
         => /\ last'.resp.status = StatusOK
            /\ Len(h) >= 1
            /\ h[1].ID = meta[rq.dbName].heads[rq.branchName]
            /\ \A i \in 1..(Len(h) - 1) : h[i].Parent = h[i + 1].ID
            /\ h[Len(h)].Parent = ""]_vars

\* C8: in every state the walk from every head along the parent links never
\* comes back to a commit and ends at a commit without parent.
C8_DagIntegrity ==
  \A d \in DbNames : \A b \in DOMAIN meta[d].heads :
    /\ ~Chain(files, meta, d, b).loops
    /\ ~Chain(files, meta, d, b).err

\* C9: branchHistory answers 404 when the branch is not among the heads of the
\* database and when the head, or a commit reached from it, is not a stored
\* commit; such a commit is never answered with another error.
C9_HistoryErrors ==
  [][LET rq == last'.req
     IN  (/\ Answered("branchHistory")
          /\ rq.dbName \in DbNames /\ rq.branchName # ""
          /\ meta[rq.dbName].state = "ok")
         => /\ (rq.branchName \notin DOMAIN meta[rq.dbName].heads)
                 => last'.resp.status = StatusNotFound
            /\ Chain(files, meta, rq.dbName, rq.branchName).err
                 => last'.resp.status = StatusNotFound]_vars

\* C10: a database whose branch heads have been written exists for branchList
\* and for branchHistory: they do not answer 404 for the database.
C10_ExistenceDerived ==
  [][LET rq == last'.req
     IN  /\ (/\ Answered("branchList")
             /\ rq.dbName \in DbNames
             /\ meta[rq.dbName].state = "ok")
            => last'.resp.status # StatusNotFound
         /\ (/\ Answered("branchHistory")
             /\ rq.dbName \in DbNames
             /\ meta[rq.dbName].state = "ok"
             /\ rq.branchName \in DOMAIN meta[rq.dbName].heads)
            => last'.resp.status # StatusNotFound]_vars

\* C11: a step of a request on one database changes neither the branch heads of
\* any other database nor whether dbExists finds any other database.
C11_Independence ==
  [][\A p \in Procs :
       (pc[p] # "idle" /\ pc'[p] # pc[p])
       => \A d \in DbNames \ {req[p].dbName} :
            /\ meta'[d] = meta[d]
            /\ dbExists(files', d) <=> dbExists(files, d)]_vars

\* goroutine p, serving a branchCreate, writes the branch heads and answers 204
CreatePublished(p) ==
  /\ pc[p] = "createStoreBranches"
  /\ pc'[p] = "idle"
  /\ last'.resp.status = StatusNoContent

\* C12: when an upload and a branchCreate on one database have both succeeded,
\* the one right after the other, the branch heads hold the branch of the
\* upload at the commit of the upload and hold the new branch, whichever of
\* the two wrote the branch heads last.
C12_UploadAndCreate ==
  [][\A p \in Procs :
       LET d == req[p].dbName
       IN  /\ (/\ CreatePublished(p)
               /\ last.req.op = "dbUpload"
               /\ last.resp.status = StatusCreated
               /\ last.req.dbName = d
               /\ meta[d].state = "ok"
               /\ last.req.branchName \in DOMAIN meta[d].heads)
              => /\ meta'[d].state = "ok"
                 /\ req[p].newBranch \in DOMAIN meta'[d].heads
                 /\ last.req.branchName \in DOMAIN meta'[d].heads
                 /\ meta'[d].heads[last.req.branchName]
                      = meta[d].heads[last.req.branchName]
           /\ (/\ UploadPublished(p)
               /\ last.req.op = "branchCreate"
               /\ last.resp.status = StatusNoContent
               /\ last.req.dbName = d)
              => /\ meta'[d].state = "ok"
                 /\ req[p].branchName \in DOMAIN meta'[d].heads
                 /\ meta'[d].heads[req[p].branchName] = c[p].ID
                 /\ last.req.newBranch \in DOMAIN meta'[d].heads]_vars

\* C13: storing bytes that are stored already, under the digest of the bytes,
\* is a step that leaves the object store as it is and does not fail; the
\* digest is the same both times, and one blob holds those bytes afterwards.
C13_ContentAddressing ==
  [][\A p \in Procs :
       (/\ pc[p] = "storeDatabase"
        /\ pc'[p] # pc[p]
        /\ Stored(files, sha256(buf[p]), "blob"))
       => /\ files[sha256(buf[p])].bytes = buf[p]
          /\ files' = files
          /\ pc'[p] = "storeTree"
          /\ Cardinality({id \in DOMAIN files' :
                            files'[id].kind = "blob" /\ files'[id].bytes = buf[p]}) = 1]_vars

\* C13 happens: an upload has answered 201, and a later upload of the same
\* bytes has gone through its storeDatabase
C13_Witness ==
  \E p \in Procs : \E id \in DOMAIN files :
    /\ pc[p] = "storeTree"
    /\ last.req.op = "dbUpload"
    /\ last.resp.status = StatusCreated
    /\ Stored(files, sha256(buf[p]), "blob")
    /\ Stored(files, id, "tree")
    /\ files[id].tree.Entries[1].Sha256 = sha256(buf[p])
    /\ files[id].tree.Entries[1].Last_Modified < t[p].Entries[1].Last_Modified

\* goroutine p, serving a dbUpload, returns from storeDatabase without error
UploadStoredDatabase(p) ==
  pc[p] \in {"storeDatabase", "writeDatabase"} /\ pc'[p] = "storeTree"

\* C14: a blob stored under the digest of bytes holds those bytes; when
\* storeDatabase has returned without error the bytes are stored under their
\* digest, whatever other bytes of the same length are stored; and no step of
\* an upload changes the blob of other bytes.
C14_DedupCorrectness ==
  [][/\ \A x \in Contents :
          Stored(files, sha256(x), "blob") => files[sha256(x)].bytes = x
     /\ \A p \in Procs :
          /\ UploadStoredDatabase(p)
               => /\ Stored(files', sha256(buf[p]), "blob")
                  /\ files'[sha256(buf[p])].bytes = buf[p]
          /\ (pc[p] # "idle" /\ pc'[p] # pc[p])
               => \A x \in Contents \ {buf[p]} :
                    /\ Len(x) = Len(buf[p])
                    /\ Stored(files, sha256(x), "blob")
                    => /\ sha256(x) \in DOMAIN files'
                       /\ files'[sha256(x)] = files[sha256(x)]]_vars

\* C14 happens: two uploads of different bytes of one length have both
\* returned from storeDatabase, and both blobs are stored
C14_Witness ==
  /\ \A p \in Procs : pc[p] \in {"storeTree", "storeCommit", "storeBranches"}
  /\ buf["p1"] # buf["p2"]
  /\ Len(buf["p1"]) = Len(buf["p2"])
  /\ \A p \in Procs :
       Stored(files, sha256(buf[p]), "blob") /\ files[sha256(buf[p])].bytes = buf[p]

\* ------------------------------------------------- createCommitID by itself
\* Two commits are filled in, goroutine p2's like goroutine p1's but for at
\* most one field, and each gets its id from createCommitID.
CommitTimes == 0..(2 * TicksPerSecond - 1)

CommitFieldValues ==
  [Parent |-> {"", sha256("parent")},
   Tree |-> {sha256("tree1"), sha256("tree2")},
   AuthorName |-> {"Justin Clift", "A. N. Other"},
   AuthorEmail |-> {"justin@postgresql.org", "other@example.org"},
   CommitterName |-> {"", "Committer"},
   CommitterEmail |-> {"", "committer@example.org"},
   Timestamp |-> CommitTimes,
   Message |-> {"", "init"}]

CommitValues ==
  [ID : {""},
   Parent : CommitFieldValues.Parent,
   Tree : CommitFieldValues.Tree,
   AuthorName : CommitFieldValues.AuthorName,
   AuthorEmail : CommitFieldValues.AuthorEmail,
   CommitterName : CommitFieldValues.CommitterName,
   CommitterEmail : CommitFieldValues.CommitterEmail,
   Timestamp : CommitFieldValues.Timestamp,
   Message : CommitFieldValues.Message]

InitCommitID ==
  /\ files = [q \in {} |-> BlobFile("")]
  /\ meta = [d \in DbNames |-> NoHeads]
  /\ now = 0
  /\ ops = 0
  /\ uploads = 0
  /\ pc = [p \in Procs |-> "idle"]
  /\ req = [p \in Procs |-> NoReq]
  /\ buf = [p \in Procs |-> ""]
  /\ t = [p \in Procs |-> NoTree]
  /\ branches = [p \in Procs |-> NoBranches]
  /\ pre = [p \in Procs |-> NoHeads]
  /\ last = [req |-> NoReq, resp |-> NoResp]
  /\ \E a \in CommitValues : \E f \in DOMAIN CommitFieldValues :
       \E v \in CommitFieldValues[f] :
         c = [p \in Procs |-> IF p = ProcSeq[1] THEN a ELSE [a EXCEPT ![f] = v]]

\* c.ID = createCommitID(c)
BuildCommit(p) ==
  /\ c[p].ID = ""
  /\ c' = [c EXCEPT ![p].ID = createCommitID(c[p])]
  /\ UNCHANGED <<files, meta, now, ops, uploads, pc, req, buf, t, branches, pre, last>>

NextCommitID == \E p \in Procs : BuildCommit(p)

SpecCommitID == InitCommitID /\ [][NextCommitID]_vars

\* the fields of a commit that the claim lists
CommitFields(cm) == [cm EXCEPT !.ID = ""]

\* C15: two commits that have their ids have the same id when all their fields
\* are equal, and different ids when they differ in one field.
C15_CommitIdDeterminism ==
  \A p, q \in Procs :
    (c[p].ID # "" /\ c[q].ID # "")
    => (c[p].ID = c[q].ID <=> CommitFields(c[p]) = CommitFields(c[q]))

\* C16: an upload request without a database name is answered 400 and changes
\* neither the object store nor any branch heads; and no upload goes on to
\* store anything unless it has a commit message, the Message of its commit.
C16_UploadValidation ==
  [][/\ (Answered("dbUpload") /\ last'.req.dbName = "")
          => /\ last'.resp.status = StatusBadRequest
             /\ files' = files
             /\ meta' = meta
     /\ \A p \in Procs :
          (pc[p] = "idle" /\ pc'[p] = "storeDatabase") => c'[p].Message # ""]_vars

\* C17: an upload request that names a database and no branch is not refused
\* as bad input: it is accepted, and when it succeeds the branch "master" of
\* the database is at its commit.
C17_DefaultBranch ==
  [][/\ (Answered("dbUpload") /\ last'.req.dbName # "" /\ last'.req.branchName = "")
          => last'.resp.status # StatusBadRequest
     /\ \A p \in Procs :
          (UploadPublished(p) /\ req[p].branchName = "")
          => /\ "master" \in DOMAIN meta'[req[p].dbName].heads
             /\ meta'[req[p].dbName].heads["master"] = c[p].ID]_vars

\* C18: a successful upload to a branch of a database that has branch heads,
\* which no other request has changed since the upload arrived, leaves every
\* other branch in the branch heads, at the commit it was at.
C18_OnlyTargetBranch ==
  [][\A p \in Procs :
       LET d == req[p].dbName
       IN  (UploadPublished(p) /\ pre[p].state = "ok" /\ meta[d] = pre[p])
           => /\ meta'[d].state = "ok"
              /\ \A n \in DOMAIN meta[d].heads \ {req[p].branchName} :
                   /\ n \in DOMAIN meta'[d].heads
                   /\ meta'[d].heads[n] = meta[d].heads[n]]_vars

\* C19: a blob, tree or commit that is stored stays stored, with the content
\* it has, in every later step.
C19_ObjectImmutability ==
  [][\A id \in DOMAIN files :
       files[id].full => (id \in DOMAIN files' /\ files'[id] = files[id])]_vars

\* C20: no upload that looks for the blob of its bytes finds, under the digest
\* of the bytes, a file that holds only a part of them.
C20_AtomicPublication ==
  [][\A p \in Procs :
       (pc[p] = "storeDatabase" /\ pc'[p] # pc[p] /\ sha256(buf[p]) \in DOMAIN files)
       => files[sha256(buf[p])].full]_vars

\* ------------------------------------------- a server that holds one upload
\* The stores as dbUpload(Name = sha256("aa"), Branch = "master", body = "aa"),
\* received at time 0 and answered 201, has left them: the one database that
\* dbExists finds, with its first commit.
FirstUploadTree ==
  LET e == [AType |-> DATABASE, Sha256 |-> sha256("aa"), Name |-> sha256("aa"),
            Last_Modified |-> 0, Size |-> Len("aa")]
  IN  [ID |-> createDBTreeID(<<e>>), Entries |-> <<e>>]

FirstUploadCommit ==
  LET c0 == [NoCommit EXCEPT !.AuthorEmail = "justin@postgresql.org",
                             !.AuthorName = "Justin Clift",
                             !.Timestamp = 0,
                             !.Tree = FirstUploadTree.ID]
  IN  [c0 EXCEPT !.ID = createCommitID(c0)]

InitStored ==
  /\ files = storeCommit(storeTree(storeDatabase([q \in {} |-> BlobFile("")], "aa", "ok"),
                                   FirstUploadTree, "ok"),
                         FirstUploadCommit, "ok")
  /\ meta = storeBranches([d \in DbNames |-> NoHeads], sha256("aa"),
                          [b \in {"master"} |-> FirstUploadCommit.ID], "ok")
  /\ now = 0
  /\ ops = 0
  /\ uploads = 0
  /\ pc = [p \in Procs |-> "idle"]
  /\ req = [p \in Procs |-> NoReq]
  /\ buf = [p \in Procs |-> ""]
  /\ t = [p \in Procs |-> NoTree]
  /\ c = [p \in Procs |-> NoCommit]
  /\ branches = [p \in Procs |-> NoBranches]
  /\ pre = [p \in Procs |-> NoHeads]
  /\ last = [req |-> NoReq, resp |-> NoResp]

SpecStored == InitStored /\ [][Next]_vars

\* C21: in every state, every stored commit has no parent or has a parent
\* that is a stored commit.
C21_NoDanglingParents ==
  \A id \in DOMAIN files :
    Stored(files, id, "commit")
    => \/ files[id].commit.Parent = ""
       \/ Stored(files, files[id].commit.Parent, "commit")

====
